---- MODULE Spec2Model ----
(***************************************************************************)
(* ReactDOMInvalidARIAHook: validation of the ARIA attribute names of a    *)
(* DOM element, with a process-wide memo of the names already reported.    *)
(*                                                                         *)
(* JavaScript strings are modelled as sequences of one-character strings,  *)
(* so that slice, toLowerCase, the two regular expressions and the         *)
(* map/join of the batched message are computed, not assumed.              *)
(***************************************************************************)
EXTENDS Integers, Sequences, FiniteSets, TLC

\* Largest number of keys of a props object.
MaxProps == 2

\* New calls are started only while no name has been reported this often.
MaxReports == 2

-----------------------------------------------------------------------------
(* Characters and strings *)

UpperCaseLetters ==
    << "A", "B", "C", "D", "E", "F", "G", "H", "I", "J", "K", "L", "M",
       "N", "O", "P", "Q", "R", "S", "T", "U", "V", "W", "X", "Y", "Z" >>

LowerCaseLetters ==
    << "a", "b", "c", "d", "e", "f", "g", "h", "i", "j", "k", "l", "m",
       "n", "o", "p", "q", "r", "s", "t", "u", "v", "w", "x", "y", "z" >>

Range(s) == { s[k] : k \in DOMAIN s }

\* the character class [A-Z] of rARIACamel
IsUpperCase(c) == c \in Range(UpperCaseLetters)

\* String.prototype.toLowerCase, one character
toLowerCaseChar(c) ==
    IF IsUpperCase(c)
    THEN LowerCaseLetters[CHOOSE k \in DOMAIN UpperCaseLetters :
                              UpperCaseLetters[k] = c]
    ELSE c

\* String.prototype.toLowerCase
toLowerCase(s) == [ k \in DOMAIN s |-> toLowerCaseChar(s[k]) ]

\* slice starting one character late
slice_late(s, from) == SubSeq(s, from + 2, Len(s))

\* String.prototype.slice(from), from a 0-based index
slice(s, from) == SubSeq(s, from + 1, Len(s))

\* DOMProperty.ATTRIBUTE_NAME_CHAR: the characters of an attribute name
ATTRIBUTE_NAME_CHAR ==
    Range(UpperCaseLetters) \cup Range(LowerCaseLetters)
        \cup { "0", "1", "2", "3", "4", "5", "6", "7", "8", "9" }
        \cup { ":", "_", "-", "." }

\* rARIA without the character class and the end anchor
rARIA_prefixOnly(name) ==
    /\ Len(name) >= 5
    /\ SubSeq(name, 1, 5) = << "a", "r", "i", "a", "-" >>

\* /^(aria)-[ATTRIBUTE_NAME_CHAR]*$/.test(name)
rARIA(name) ==
    /\ Len(name) >= 5
    /\ SubSeq(name, 1, 5) = << "a", "r", "i", "a", "-" >>
    /\ \A k \in 6 .. Len(name) : name[k] \in ATTRIBUTE_NAME_CHAR

\* /^(aria)[A-Z][ATTRIBUTE_NAME_CHAR]*$/.test(name)
rARIACamel(name) ==
    /\ Len(name) >= 5
    /\ SubSeq(name, 1, 4) = << "a", "r", "i", "a" >>
    /\ IsUpperCase(name[5])
    /\ \A k \in 6 .. Len(name) : name[k] \in ATTRIBUTE_NAME_CHAR

-----------------------------------------------------------------------------
(* The attribute names and elements the renderer passes in *)

ariaHyphen == << "a", "r", "i", "a", "-" >>

KnownName     == ariaHyphen \o << "h", "i", "d", "d", "e", "n" >>
MiscasedName  == ariaHyphen \o << "H", "i", "d", "d", "e", "n" >>
CamelKnown    == << "a", "r", "i", "a", "H", "i", "d", "d", "e", "n" >>
CamelUnknown  == << "a", "r", "i", "a", "F", "o", "o" >>
UnknownName   == ariaHyphen \o << "f", "o", "o" >>
BareName      == ariaHyphen
IsName        == << "i", "s" >>
OddName       == ariaHyphen \o << "a", "=" >>

Names ==
    { KnownName, MiscasedName, CamelKnown, CamelUnknown,
      UnknownName, BareName, IsName, OddName }

\* validAriaProperties: the canonical ARIA attribute names
validAriaProperties ==
    { KnownName, ariaHyphen \o << "l", "a", "b", "e", "l" >> }

DivTag    == << "d", "i", "v" >>
CustomTag == << "x", "-", "a" >>
Tags == { DivTag, CustomTag }

Values == { 1 }

\* a props object: its own enumerable keys in for-in order, with their values
PropsOfLen(n) ==
    { p \in [ 1 .. n -> [ key : Names, value : Values ] ] :
        \A a, b \in 1 .. n : a # b => p[a].key # p[b].key }

AllProps == UNION { PropsOfLen(n) : n \in 0 .. MaxProps }

keysOf(props) == { props[k].key : k \in DOMAIN props }

StringType(tag) == [ typeof |-> "string", tag |-> tag ]
FunctionType    == [ typeof |-> "function", tag |-> << >> ]

Types == { StringType(t) : t \in Tags } \cup { FunctionType }

null == [ kind |-> "null", type |-> FunctionType, props |-> << >> ]

Element(type, props) == [ kind |-> "element", type |-> type, props |-> props ]

HostElements == { Element(StringType(t), p) : t \in Tags, p \in AllProps }

\* what a hook can be handed: nothing, a composite element, a host element
HookElements ==
    { null } \cup { Element(FunctionType, p) : p \in PropsOfLen(1) }
             \cup HostElements

-----------------------------------------------------------------------------
(* Collaborators *)

\* the build flag: the validator exists in development builds only
DEV == TRUE

\* a classifier that looks at the tag only
isCustomComponent_tagOnly(tagName, props) ==
    \E k \in DOMAIN tagName : tagName[k] = "-"

\* isCustomComponent(tagName, props): a tag with a hyphen, or an "is" prop
isCustomComponent(tagName, props) ==
    \/ \E k \in DOMAIN tagName : tagName[k] = "-"
    \/ IsName \in keysOf(props)

-----------------------------------------------------------------------------
(* Diagnostics *)

\* The format strings of the warning calls. The grave accent (U+0060) of
\* the source is written as an apostrophe in them, and as the token
\* GraveAccent where it is a character of a computed string.
InvalidLowercaseFormat ==
    "Invalid ARIA attribute '%s'. ARIA attributes follow the pattern aria-* and must be lowercase.%s"
InvalidDidYouMeanFormat == "Invalid ARIA attribute '%s'. Did you mean '%s'?%s"
UnknownDidYouMeanFormat == "Unknown ARIA attribute '%s'. Did you mean '%s'?%s"
InvalidPropFormat ==
    "Invalid aria prop %s on <%s> tag. For details, see https://fb.me/invalid-aria-prop%s"
InvalidPropsFormat ==
    "Invalid aria props %s on <%s> tag. For details, see https://fb.me/invalid-aria-prop%s"

BatchFormats == { InvalidPropFormat, InvalidPropsFormat }

\* warning(false, format, subject, other, stack): the call that reaches the sink
warning(format, subject, other) ==
    [ format |-> format, subject |-> subject, other |-> other ]

GraveAccent == "U+0060"

\* the map callback of unknownPropString: the name between grave accents
quote(prop) == << GraveAccent >> \o prop \o << GraveAccent >>

\* Array.prototype.join with a comma and a space, over the quoted names
RECURSIVE joinQuoted(_)
joinQuoted(list) ==
    IF list = << >> THEN << >>
    ELSE IF Len(list) = 1 THEN quote(list[1])
    ELSE quote(list[1]) \o << ",", " " >> \o joinQuoted(Tail(list))

isSubstring(t, s) ==
    \E k \in 1 .. (Len(s) - Len(t) + 1) : SubSeq(s, k, k + Len(t) - 1) = t

\* the diagnostic d reports the attribute name n
Mentions(d, n) ==
    IF d.format \in BatchFormats
    THEN isSubstring(quote(n), d.subject)
    ELSE d.subject = n

-----------------------------------------------------------------------------
(* State *)

VARIABLES
    warnedProperties,   \* the memo: attribute name -> true
    pc,                 \* "idle": the renderer is between two elements;
                        \* "loop": a call is in its for-in loop;
                        \* "returned", "threw": the call has ended
    entry,              \* the entry point of the running or last call
    element,            \* the element of the running or last call
    idx,                \* position of the for-in loop in the keys of props
    invalidProps,       \* the array of the running call
    emitted,            \* the diagnostics of the running or last call
    reportCount,        \* per name, the diagnostics that have reported it
    warnedAtCall,       \* warnedProperties when the running call started
    testedARIA,         \* the keys the running call has matched against rARIA
    again,              \* the call repeats the props of the call before
                        \* it, which emitted a batched diagnostic
    visited,            \* the keys the running call has passed to
                        \* validateProperty, in order
    prev,               \* when the call repeats the props of the call
                        \* before it: whether that call was on a custom
                        \* element, the names it reported as a mount hook
    calls               \* the calls of the race: per call its position,
                        \* element, loop index, invalidProps, the warning
                        \* it is about to emit, and what its checks of the
                        \* memo found

vars == << warnedProperties, pc, entry, element, idx, invalidProps, emitted,
           reportCount, warnedAtCall, testedARIA, again, visited, prev,
           calls >>

\* the memo test with the marker negated
isWarned_negated(warned, name) == name \in DOMAIN warned /\ ~warned[name]

\* hasOwnProperty.call(warnedProperties, name) && warnedProperties[name]
isWarned(warned, name) == name \in DOMAIN warned /\ warned[name]

\* the assignment to the memo left out
markWarned_forget(warned, name) == warned

\* the memo replaced by an object that holds the one name
markWarned_replace(warned, name) == [ n \in { name } |-> TRUE ]

\* warnedProperties[name] = true
markWarned(warned, name) ==
    [ n \in DOMAIN warned \cup { name } |->
        IF n = name THEN TRUE ELSE warned[n] ]

\* the hyphenated branch returning true for an unknown name
validateHyphenated_unknownValid(name, warned) ==
    LET lowerCasedName == toLowerCase(name)
        known == lowerCasedName \in validAriaProperties
    IN  IF rARIA(name) /\ known /\ name # lowerCasedName
        THEN [ isValid |-> TRUE, warned |-> markWarned(warned, name),
               warnings |-> << warning(UnknownDidYouMeanFormat, name,
                                       lowerCasedName) >>,
               tested |-> TRUE, threw |-> FALSE ]
        ELSE [ isValid |-> TRUE,
               warned |-> IF rARIA(name) /\ ~known
                          THEN markWarned(warned, name) ELSE warned,
               warnings |-> << >>, tested |-> TRUE, threw |-> FALSE ]

\* the hyphenated branch without the comparison name !== standardName
validateHyphenated_noCaseCheck(name, warned) ==
    LET lowerCasedName == toLowerCase(name)
        known == lowerCasedName \in validAriaProperties
    IN  IF ~rARIA(name)
        THEN [ isValid |-> TRUE, warned |-> warned, warnings |-> << >>,
               tested |-> TRUE, threw |-> FALSE ]
        ELSE IF ~known
        THEN [ isValid |-> FALSE, warned |-> markWarned(warned, name),
               warnings |-> << >>, tested |-> TRUE, threw |-> FALSE ]
        ELSE [ isValid |-> TRUE, warned |-> markWarned(warned, name),
               warnings |-> << warning(UnknownDidYouMeanFormat, name,
                                       lowerCasedName) >>,
               tested |-> TRUE, threw |-> FALSE ]

\* the hyphenated branch leaving the unknown name out of the memo
validateHyphenated_noMark(name, warned) ==
    LET lowerCasedName == toLowerCase(name)
        known == lowerCasedName \in validAriaProperties
    IN  IF ~rARIA(name)
        THEN [ isValid |-> TRUE, warned |-> warned, warnings |-> << >>,
               tested |-> TRUE, threw |-> FALSE ]
        ELSE IF ~known
        THEN [ isValid |-> FALSE, warned |-> warned,
               warnings |-> << >>, tested |-> TRUE, threw |-> FALSE ]
        ELSE IF name # lowerCasedName
        THEN [ isValid |-> TRUE, warned |-> markWarned(warned, name),
               warnings |-> << warning(UnknownDidYouMeanFormat, name,
                                       lowerCasedName) >>,
               tested |-> TRUE, threw |-> FALSE ]
        ELSE [ isValid |-> TRUE, warned |-> warned, warnings |-> << >>,
               tested |-> TRUE, threw |-> FALSE ]

\* the hyphenated branch marking a miscased known name without a warning
validateHyphenated_silentCase(name, warned) ==
    LET lowerCasedName == toLowerCase(name)
        known == lowerCasedName \in validAriaProperties
    IN  IF ~rARIA(name)
        THEN [ isValid |-> TRUE, warned |-> warned, warnings |-> << >>,
               tested |-> TRUE, threw |-> FALSE ]
        ELSE IF ~known
        THEN [ isValid |-> FALSE, warned |-> markWarned(warned, name),
               warnings |-> << >>, tested |-> TRUE, threw |-> FALSE ]
        ELSE IF name # lowerCasedName
        THEN [ isValid |-> TRUE, warned |-> markWarned(warned, name),
               warnings |-> << >>, tested |-> TRUE, threw |-> FALSE ]
        ELSE [ isValid |-> TRUE, warned |-> warned, warnings |-> << >>,
               tested |-> TRUE, threw |-> FALSE ]

\* the hyphenated branch marking every name it matches
validateHyphenated_markValid(name, warned) ==
    LET lowerCasedName == toLowerCase(name)
        known == lowerCasedName \in validAriaProperties
    IN  IF ~rARIA(name)
        THEN [ isValid |-> TRUE, warned |-> warned, warnings |-> << >>,
               tested |-> TRUE, threw |-> FALSE ]
        ELSE IF ~known
        THEN [ isValid |-> FALSE, warned |-> markWarned(warned, name),
               warnings |-> << >>, tested |-> TRUE, threw |-> FALSE ]
        ELSE IF name # lowerCasedName
        THEN [ isValid |-> TRUE, warned |-> markWarned(warned, name),
               warnings |-> << warning(UnknownDidYouMeanFormat, name,
                                       lowerCasedName) >>,
               tested |-> TRUE, threw |-> FALSE ]
        ELSE [ isValid |-> TRUE, warned |-> markWarned(warned, name),
               warnings |-> << >>, tested |-> TRUE, threw |-> FALSE ]

\* the hyphenated branch of validateProperty
validateHyphenated(name, warned) ==
    LET lowerCasedName == toLowerCase(name)
        known == lowerCasedName \in validAriaProperties
    IN  IF ~rARIA(name)
        THEN [ isValid |-> TRUE, warned |-> warned, warnings |-> << >>,
               tested |-> TRUE, threw |-> FALSE ]
        ELSE IF ~DEV
        THEN [ isValid |-> TRUE, warned |-> warned, warnings |-> << >>,
               tested |-> TRUE, threw |-> TRUE ]
        ELSE IF ~known
        THEN [ isValid |-> FALSE, warned |-> markWarned(warned, name),
               warnings |-> << >>, tested |-> TRUE, threw |-> FALSE ]
        ELSE IF name # lowerCasedName
        THEN [ isValid |-> TRUE, warned |-> markWarned(warned, name),
               warnings |-> << warning(UnknownDidYouMeanFormat, name,
                                       lowerCasedName) >>,
               tested |-> TRUE, threw |-> FALSE ]
        ELSE [ isValid |-> TRUE, warned |-> warned, warnings |-> << >>,
               tested |-> TRUE, threw |-> FALSE ]

\* validateProperty without the return after the must-be-lowercase warning
validateProperty_fallthrough(tagName, name, warned) ==
    LET ariaName == ariaHyphen \o toLowerCase(slice(name, 4))
        rest == validateHyphenated(name, markWarned(warned, name))
    IN  IF isWarned(warned, name)
        THEN [ isValid |-> TRUE, warned |-> warned, warnings |-> << >>,
               tested |-> FALSE, threw |-> FALSE ]
        ELSE IF rARIACamel(name) /\ ariaName \notin validAriaProperties
        THEN [ rest EXCEPT
                 !.warnings =
                     << warning(InvalidLowercaseFormat, name, << >>) >> \o @ ]
        ELSE IF rARIACamel(name) /\ name # ariaName
        THEN [ isValid |-> TRUE, warned |-> markWarned(warned, name),
               warnings |-> << warning(InvalidDidYouMeanFormat, name,
                                       ariaName) >>,
               tested |-> FALSE, threw |-> FALSE ]
        ELSE validateHyphenated(name, warned)

\* validateProperty(tagName, name, debugID): whether the name is valid, the
\* memo after the call, the warnings emitted, whether rARIA was tested
validateProperty(tagName, name, warned) ==
    LET ariaName == ariaHyphen \o toLowerCase(slice(name, 4))
    IN  IF isWarned(warned, name)
        THEN [ isValid |-> TRUE, warned |-> warned, warnings |-> << >>,
               tested |-> FALSE, threw |-> FALSE ]
        ELSE IF rARIACamel(name) /\ ~DEV
        THEN [ isValid |-> TRUE, warned |-> warned, warnings |-> << >>,
               tested |-> FALSE, threw |-> TRUE ]
        ELSE IF rARIACamel(name) /\ ariaName \notin validAriaProperties
        THEN [ isValid |-> TRUE, warned |-> markWarned(warned, name),
               warnings |-> << warning(InvalidLowercaseFormat, name, << >>) >>,
               tested |-> FALSE, threw |-> FALSE ]
        ELSE IF rARIACamel(name) /\ name # ariaName
        THEN [ isValid |-> TRUE, warned |-> markWarned(warned, name),
               warnings |-> << warning(InvalidDidYouMeanFormat, name,
                                       ariaName) >>,
               tested |-> FALSE, threw |-> FALSE ]
        ELSE validateHyphenated(name, warned)

\* the names of Names that the diagnostics ds report, counted per name
countReports(count, ds) ==
    [ n \in Names |->
        count[n] + Cardinality({ k \in DOMAIN ds : Mentions(ds[k], n) }) ]

tagName == element.type.tag
props == element.props

\* the call validates: it is past the guards of the hook and of
\* validateProperties
Validates(e, el) ==
    /\ e # "none"
    /\ el.kind = "element"
    /\ el.type.typeof = "string"
    /\ e # "validateProperties" => DEV
    /\ ~isCustomComponent(el.type.tag, el.props)

batched(ds) == { k \in DOMAIN ds : ds[k].format \in BatchFormats }

\* no call precedes on the same props
NoPrev == [ custom |-> FALSE, mountReported |-> {} ]

\* what the call that has just returned leaves to a call on the same props
PrevCall ==
    [ custom |-> /\ element.kind = "element"
                 /\ element.type.typeof = "string"
                 /\ isCustomComponent(tagName, props),
      mountReported |->
          IF entry = "onBeforeMountComponent"
          THEN { n \in Names :
                   \E k \in DOMAIN emitted : Mentions(emitted[k], n) }
          ELSE {} ]

\* the two calls of the race
Procs == { "first", "second" }

\* a call of the race that has not started
IdleCall ==
    [ pc |-> "idle", element |-> null, idx |-> 0, invalidProps |-> << >>,
      pending |-> << >>, isValid |-> TRUE, fresh |-> {}, skipped |-> {} ]

Init ==
    /\ warnedProperties = << >>
    /\ pc = "idle"
    /\ entry = "none"
    /\ element = null
    /\ idx = 0
    /\ invalidProps = << >>
    /\ emitted = << >>
    /\ reportCount = [ n \in Names |-> 0 ]
    /\ warnedAtCall = << >>
    /\ testedARIA = {}
    /\ again = FALSE
    /\ visited = << >>
    /\ prev = NoPrev
    /\ calls = [ p \in Procs |-> IdleCall ]

\* the elements the renderer can pass next: any element when it is between
\* two elements, the props of the element it holds when it validates the
\* same props again (an update after a mount, a re-render)
Offered(elements) ==
    IF pc = "idle" THEN elements
    ELSE { el \in { null } \cup { Element(ty, props) : ty \in Types } :
             el \in elements }

\* a call starts: the part common to the three entry points
Enter(e, el, runs) ==
    /\ pc \in { "idle", "returned" }
    /\ \A n \in Names : reportCount[n] < MaxReports
    /\ entry' = e
    /\ element' = el
    /\ idx' = 0
    /\ invalidProps' = << >>
    /\ emitted' = << >>
    /\ warnedAtCall' = warnedProperties
    /\ testedARIA' = {}
    /\ again' = /\ pc = "returned"
                /\ Validates(entry, element)
                /\ batched(emitted) # {}
    /\ visited' = << >>
    /\ prev' = IF pc = "returned" THEN PrevCall ELSE NoPrev
    /\ pc' = IF runs THEN "loop" ELSE "returned"
    /\ UNCHANGED << warnedProperties, reportCount, calls >>

\* validateProperties without the custom-element return
validatePropertiesFrom_noBypass(e, el) == Enter(e, el, TRUE)

\* validateProperties(type, props, debugID), up to the call of
\* warnInvalidARIAProps
validatePropertiesFrom(e, el) ==
    Enter(e, el, ~isCustomComponent(el.type.tag, el.props))

validateProperties ==
    \E el \in Offered(HostElements) :
        validatePropertiesFrom("validateProperties", el)

\* the hooks without the test of the element type
hook_noTypeCheck(e) ==
    \E el \in Offered(HookElements) :
        IF DEV /\ el # null
        THEN validatePropertiesFrom(e, el)
        ELSE Enter(e, el, FALSE)

\* onBeforeMountComponent(debugID, element) and
\* onBeforeUpdateComponent(debugID, element)
hook(e) ==
    \E el \in Offered(HookElements) :
        IF DEV /\ el # null /\ el.type.typeof = "string"
        THEN validatePropertiesFrom(e, el)
        ELSE Enter(e, el, FALSE)

onBeforeMountComponent == hook("onBeforeMountComponent")

onBeforeUpdateComponent == hook("onBeforeUpdateComponent")

\* unshift in place of push
push_front(array, item) == << item >> \o array

\* Array.prototype.push
push(array, item) == Append(array, item)

\* the loop iteration overwriting the value of the key it visits
visitKey_overwrite ==
    /\ pc = "loop"
    /\ idx < Len(props)
    /\ LET key == props[idx + 1].key
           r == validateProperty(tagName, key, warnedProperties)
       IN  /\ warnedProperties' = r.warned
           /\ emitted' = emitted \o r.warnings
           /\ reportCount' = countReports(reportCount, r.warnings)
           /\ invalidProps' = IF r.isValid THEN invalidProps
                              ELSE push(invalidProps, key)
           /\ visited' = Append(visited, key)
           /\ testedARIA' = IF r.tested THEN testedARIA \cup { key }
                            ELSE testedARIA
           /\ idx' = idx + 1
           /\ pc' = IF r.threw THEN "threw" ELSE "loop"
           /\ element' = [ element EXCEPT !.props[idx + 1].value = 0 ]
    /\ UNCHANGED << entry, warnedAtCall, again, prev, calls >>

\* one iteration of the for-in loop of warnInvalidARIAProps
visitKey ==
    /\ pc = "loop"
    /\ idx < Len(props)
    /\ LET key == props[idx + 1].key
           r == validateProperty(tagName, key, warnedProperties)
       IN  /\ warnedProperties' = r.warned
           /\ emitted' = emitted \o r.warnings
           /\ reportCount' = countReports(reportCount, r.warnings)
           /\ invalidProps' = IF r.isValid THEN invalidProps
                              ELSE push(invalidProps, key)
           /\ visited' = Append(visited, key)
           /\ testedARIA' = IF r.tested THEN testedARIA \cup { key }
                            ELSE testedARIA
           /\ idx' = idx + 1
           /\ pc' = IF r.threw THEN "threw" ELSE "loop"
    /\ UNCHANGED << entry, element, warnedAtCall, again, prev, calls >>

\* the batched diagnostic always in its singular form
batchWarnings_singular(type, invalid) ==
    IF Len(invalid) >= 1
    THEN << warning(InvalidPropFormat, joinQuoted(invalid), type) >>
    ELSE << >>

\* the diagnostics warnInvalidARIAProps emits after its loop
batchWarnings(type, invalid) ==
    LET unknownPropString == joinQuoted(invalid)
    IN  IF Len(invalid) = 1
        THEN << warning(InvalidPropFormat, unknownPropString, type) >>
        ELSE IF Len(invalid) > 1
        THEN << warning(InvalidPropsFormat, unknownPropString, type) >>
        ELSE << >>

\* the end of warnInvalidARIAProps: the batched diagnostic and the return
report ==
    /\ pc = "loop"
    /\ idx >= Len(props)
    /\ LET ws == batchWarnings(tagName, invalidProps)
       IN  /\ emitted' = emitted \o ws
           /\ reportCount' = countReports(reportCount, ws)
    /\ pc' = "returned"
    /\ UNCHANGED << warnedProperties, entry, element, idx, invalidProps,
                    warnedAtCall, testedARIA, again, visited, prev, calls >>

\* the renderer is done with the element: the element descriptor and the
\* diagnostics of the call are transient and are dropped
nextElement ==
    /\ pc = "returned"
    /\ pc' = "idle"
    /\ entry' = "none"
    /\ element' = null
    /\ idx' = 0
    /\ invalidProps' = << >>
    /\ emitted' = << >>
    /\ warnedAtCall' = << >>
    /\ testedARIA' = {}
    /\ again' = FALSE
    /\ visited' = << >>
    /\ prev' = NoPrev
    /\ UNCHANGED << warnedProperties, reportCount, calls >>

Next ==
    \/ validateProperties
    \/ onBeforeMountComponent
    \/ onBeforeUpdateComponent
    \/ visitKey
    \/ report
    \/ nextElement

Spec == Init /\ [][Next]_vars

-----------------------------------------------------------------------------
(* Two interleaved calls on the one memo. A call is cut where it reads the
   memo (line 48), where it emits a warning (lines 61, 72, 98, 128, 137) and
   where it writes the memo (lines 67, 80, 93, 106). The diagnostics of both
   calls go to the one console, emitted. *)

\* props of at most this many keys in the calls of the race
MaxRaceProps == 2

\* the names the calls of the race carry: a valid one, one that is warned
\* about and then marked in the hyphenated branch, one in the camel-case
\* branch, and one that is marked and batched
RaceNames == { KnownName, MiscasedName, CamelKnown, UnknownName }

RaceElements ==
    { el \in HostElements :
        /\ Len(el.props) <= MaxRaceProps
        /\ keysOf(el.props) \subseteq RaceNames }

\* the variables of the single call, which the race leaves alone
callVars == << pc, entry, element, idx, invalidProps, warnedAtCall,
               testedARIA, again, visited, prev >>

\* validateProperties(type, props, debugID) of one call of the race
raceStart(p) ==
    /\ calls[p].pc = "idle"
    /\ \E el \in RaceElements :
          calls' = [ calls EXCEPT ![p] =
                       [ IdleCall EXCEPT
                           !.element = el,
                           !.pc = IF isCustomComponent(el.type.tag, el.props)
                                  THEN "done" ELSE "check" ] ]
    /\ UNCHANGED << warnedProperties, emitted, reportCount >>
    /\ UNCHANGED callVars

\* the call reads the memo for its next key and decides its branch
raceCheck(p) ==
    LET c == calls[p]
    IN  /\ c.pc = "check"
        /\ c.idx < Len(c.element.props)
        /\ LET key == c.element.props[c.idx + 1].key
               r == validateProperty(c.element.type.tag, key,
                                     warnedProperties)
               writes == r.warned # warnedProperties
               found == key \in DOMAIN warnedProperties
               fresh == IF found THEN c.fresh ELSE c.fresh \cup { key }
               skipped == IF found /\ reportCount[key] = 0
                          THEN c.skipped \cup { key } ELSE c.skipped
           IN  calls' = [ calls EXCEPT ![p] =
                   IF r.threw
                   THEN [ c EXCEPT !.pc = "done" ]
                   ELSE IF r.warnings # << >>
                   THEN [ c EXCEPT !.pc = "emit", !.pending = r.warnings,
                                   !.isValid = r.isValid,
                                   !.fresh = fresh, !.skipped = skipped ]
                   ELSE IF writes
                   THEN [ c EXCEPT !.pc = "mark", !.isValid = r.isValid,
                                   !.fresh = fresh, !.skipped = skipped ]
                   ELSE [ c EXCEPT !.idx = c.idx + 1,
                                   !.invalidProps =
                                       IF r.isValid THEN c.invalidProps
                                       ELSE push(c.invalidProps, key),
                                   !.fresh = fresh, !.skipped = skipped ] ]
        /\ UNCHANGED << warnedProperties, emitted, reportCount >>
        /\ UNCHANGED callVars

\* a call that drops the warning of its branch
raceEmit_silent(p) ==
    LET c == calls[p]
    IN  /\ c.pc = "emit"
        /\ calls' = [ calls EXCEPT ![p] =
                        [ c EXCEPT !.pc = "mark", !.pending = << >> ] ]
        /\ UNCHANGED << warnedProperties, emitted, reportCount >>
        /\ UNCHANGED callVars

\* the call emits the warning of its branch
raceEmit(p) ==
    LET c == calls[p]
    IN  /\ c.pc = "emit"
        /\ emitted' = emitted \o c.pending
        /\ reportCount' = countReports(reportCount, c.pending)
        /\ calls' = [ calls EXCEPT ![p] =
                        [ c EXCEPT !.pc = "mark", !.pending = << >> ] ]
        /\ UNCHANGED warnedProperties
        /\ UNCHANGED callVars

\* the call writes the memo, returns from validateProperty, and the loop
\* pushes the key when the result is false
raceMark(p) ==
    LET c == calls[p]
        key == c.element.props[c.idx + 1].key
    IN  /\ c.pc = "mark"
        /\ warnedProperties' = markWarned(warnedProperties, key)
        /\ calls' = [ calls EXCEPT ![p] =
                        [ c EXCEPT !.pc = "check",
                                   !.idx = c.idx + 1,
                                   !.isValid = TRUE,
                                   !.invalidProps =
                                       IF c.isValid THEN c.invalidProps
                                       ELSE push(c.invalidProps, key) ] ]
        /\ UNCHANGED << emitted, reportCount >>
        /\ UNCHANGED callVars

\* a call that returns without its batched diagnostic
raceReport_silent(p) ==
    LET c == calls[p]
    IN  /\ c.pc = "check"
        /\ c.idx >= Len(c.element.props)
        /\ calls' = [ calls EXCEPT ![p] = [ c EXCEPT !.pc = "done" ] ]
        /\ UNCHANGED << warnedProperties, emitted, reportCount >>
        /\ UNCHANGED callVars

\* the end of warnInvalidARIAProps in a call of the race
raceReport(p) ==
    LET c == calls[p]
        ws == batchWarnings(c.element.type.tag, c.invalidProps)
    IN  /\ c.pc = "check"
        /\ c.idx >= Len(c.element.props)
        /\ emitted' = emitted \o ws
        /\ reportCount' = countReports(reportCount, ws)
        /\ calls' = [ calls EXCEPT ![p] = [ c EXCEPT !.pc = "done" ] ]
        /\ UNCHANGED warnedProperties
        /\ UNCHANGED callVars

NextRace ==
    \E p \in Procs :
        \/ raceStart(p)
        \/ raceCheck(p)
        \/ raceEmit(p)
        \/ raceMark(p)
        \/ raceReport(p)

SpecRace == Init /\ [][NextRace]_vars

-----------------------------------------------------------------------------
(* Vocabulary of the properties *)

\* the running or last call has returned
Done == pc = "returned"

\* the running or last call went through warnInvalidARIAProps
Validated == Validates(entry, element)

\* the diagnostics of the call that report the name n
reportsOf(n) == { k \in DOMAIN emitted : Mentions(emitted[k], n) }

\* the memo w holds the name n, marked true
InMemo(w, n) == n \in DOMAIN w /\ w[n] = TRUE

\* the camel-case pattern: aria, an uppercase letter, name characters
CamelPattern(n) ==
    /\ Len(n) >= 5
    /\ n = << "a", "r", "i", "a" >> \o SubSeq(n, 5, Len(n))
    /\ n[5] \in Range(UpperCaseLetters)
    /\ Range(SubSeq(n, 6, Len(n))) \subseteq ATTRIBUTE_NAME_CHAR

\* the hyphenated pattern: aria-, name characters
HyphenatedPattern(n) ==
    /\ Len(n) >= 5
    /\ n = ariaHyphen \o SubSeq(n, 6, Len(n))
    /\ Range(SubSeq(n, 6, Len(n))) \subseteq ATTRIBUTE_NAME_CHAR

\* n was not in the memo when the call started
FreshAtCall(n) == ~InMemo(warnedAtCall, n)

\* hyphenated, and the lowercase form is not a known attribute
UnknownHyphenated(n) == HyphenatedPattern(n) /\ toLowerCase(n) \notin validAriaProperties

\* a violation of the naming convention
IsViolation(n) ==
    CamelPattern(n) \/ (HyphenatedPattern(n) /\ n \notin validAriaProperties)

\* the canonical form of a camel-case name
canonicalOf(n) == ariaHyphen \o toLowerCase(SubSeq(n, 5, Len(n)))

\* the sequences that list every element of S once
orderingsOf(S) ==
    { q \in [ 1 .. Cardinality(S) -> S ] : Range(q) = S }

-----------------------------------------------------------------------------
(* Properties *)

\* C1: over any sequence of calls from an empty memo, every attribute name
\* is reported by at most one diagnostic in total, individual or batched.
C1_AtMostOnce == \A n \in Names : reportCount[n] <= 1

\* a name reported by an earlier call has been visited again by a call
\* that has returned
C1_Witness ==
    /\ Done /\ Validated
    /\ \E n \in keysOf(props) : ~FreshAtCall(n) /\ reportCount[n] = 1

\* C2: a call on a non-custom element reports, during the call, every key
\* that is not yet warned and violates the naming convention.
C2_EveryViolationReported ==
    (Done /\ Validated) =>
        \A n \in keysOf(props) :
            (FreshAtCall(n) /\ IsViolation(n)) => reportsOf(n) # {}

C2_Witness ==
    /\ Done /\ Validated
    /\ \E n \in keysOf(props) :
          FreshAtCall(n) /\ IsViolation(n) /\ UnknownHyphenated(n)
    /\ \E n \in keysOf(props) :
          FreshAtCall(n) /\ IsViolation(n) /\ ~UnknownHyphenated(n)

\* C3: a call on an element the classifier reports as custom emits no
\* diagnostic, whatever its keys and whatever the memo holds.
C3_CustomBypass ==
    ( /\ entry # "none"
      /\ element.kind = "element"
      /\ element.type.typeof = "string"
      /\ isCustomComponent(tagName, props) ) =>
        /\ pc = "returned"
        /\ emitted = << >>
        /\ invalidProps = << >>
        /\ warnedProperties = warnedAtCall

\* a custom element with a violating key that has never been reported
C3_Witness ==
    /\ Done
    /\ entry # "none"
    /\ element.kind = "element"
    /\ element.type.typeof = "string"
    /\ isCustomComponent(tagName, props)
    /\ \E n \in keysOf(props) :
          IsViolation(n) /\ ~InMemo(warnedProperties, n)

\* C4: a known attribute name in its canonical spelling is never reported
\* by a diagnostic and never put into the batched list.
C4_CanonicalSilent ==
    \A n \in Names \cap validAriaProperties :
        /\ reportCount[n] = 0
        /\ reportsOf(n) = {}
        /\ n \notin Range(invalidProps)
        /\ ~InMemo(warnedProperties, n)

C4_Witness ==
    /\ Done /\ Validated
    /\ \E n \in keysOf(props) : n \in validAriaProperties

\* C5: a name that matches neither the camel-case nor the hyphenated
\* pattern is never reported by a diagnostic.
C5_OtherNamesIgnored ==
    \A n \in Names :
        (~CamelPattern(n) /\ ~HyphenatedPattern(n)) =>
            /\ reportCount[n] = 0
            /\ reportsOf(n) = {}
            /\ n \notin Range(invalidProps)

C5_Witness ==
    /\ Done /\ Validated
    /\ \E n \in keysOf(props) : ~CamelPattern(n) /\ ~HyphenatedPattern(n)

\* C6: once an unknown hyphenated name has been reported in a batched
\* diagnostic, no later step reports it or collects it for a batch, and a
\* call that repeats the props of a call that batched emits nothing.
C6_Idempotent ==
    [][ /\ \A n \in Names :
              (reportCount[n] >= 1 /\ UnknownHyphenated(n)) =>
                  /\ reportCount'[n] = reportCount[n]
                  /\ n \in Range(invalidProps') => n \in Range(invalidProps)
        /\ again' => (emitted' = << >> /\ invalidProps' = << >>)
      ]_vars

\* the repeated call has returned, and it carried a reported unknown name
C6_Witness ==
    /\ Done /\ Validated /\ again
    /\ \E n \in keysOf(props) : UnknownHyphenated(n) /\ reportCount[n] = 1
    /\ Len(props) > 1

\* the keys of the call that are unknown hyphenated names not yet warned
unknownOfCall == { n \in keysOf(props) : FreshAtCall(n) /\ UnknownHyphenated(n) }

\* C7: a call on a non-custom element emits one batched diagnostic when it
\* has fresh unknown hyphenated keys and none otherwise; the diagnostic lists
\* exactly those keys, each once, singular for one key and plural for more.
C7_OneBatch ==
    /\ pc = "loop" => batched(emitted) = {}
    /\ (Done /\ Validated) =>
          IF unknownOfCall = {}
          THEN batched(emitted) = {}
          ELSE /\ Cardinality(batched(emitted)) = 1
               /\ \A k \in batched(emitted) :
                     /\ \E q \in orderingsOf(unknownOfCall) :
                            emitted[k].subject = joinQuoted(q)
                     /\ { n \in Names : Mentions(emitted[k], n) }
                            = unknownOfCall
                     /\ emitted[k].other = tagName
                     /\ emitted[k].format =
                            IF Cardinality(unknownOfCall) = 1
                            THEN InvalidPropFormat
                            ELSE InvalidPropsFormat

C7_Witness ==
    /\ Done /\ Validated
    /\ Cardinality(unknownOfCall) > 1
    /\ warnedAtCall # << >>

\* C8: no call ends in an error, and no step of a call changes the element
\* or its props: keys and values are the same after the call as before.
C8_NoErrorNoMutation ==
    [][ /\ pc' # "threw"
        /\ pc = "loop" => element' = element
      ]_vars

C8_Witness ==
    /\ Done /\ Validated
    /\ emitted # << >>
    /\ warnedProperties # warnedAtCall

\* C9 as claimed: an unknown hyphenated name collected for the batch is
\* absent from the memo until the batched diagnostic is emitted.
C9_MarkedOnlyAtBatch ==
    pc = "loop" =>
        \A n \in Range(invalidProps) : ~InMemo(warnedProperties, n)

\* C9 amended: an unknown hyphenated name is marked warned by the per-name
\* step itself, so every name collected for the batch is already warned
\* before the batched diagnostic is emitted, and emitting that diagnostic
\* leaves the memo unchanged.
C9_MarkedAtVisit ==
    [][ /\ \A n \in Range(invalidProps') : InMemo(warnedProperties', n)
        /\ batched(emitted') # batched(emitted) =>
              warnedProperties' = warnedProperties
      ]_vars

\* between the visit of an unknown name and the batched diagnostic
C9_Witness ==
    /\ pc = "loop"
    /\ invalidProps # << >>
    /\ batched(emitted) = {}

\* C10: a fresh camel-case name whose canonical form is unknown gets exactly
\* one individual must-be-lowercase diagnostic, is marked warned, is not
\* matched against the hyphenated pattern and is not in the batch.
C10_CamelUnknown ==
    (Done /\ Validated) =>
        \A n \in keysOf(props) :
            ( /\ FreshAtCall(n)
              /\ CamelPattern(n)
              /\ canonicalOf(n) \notin validAriaProperties ) =>
                /\ Cardinality(reportsOf(n)) = 1
                /\ \A k \in reportsOf(n) :
                      /\ emitted[k].format = InvalidLowercaseFormat
                      /\ emitted[k].subject = n
                /\ InMemo(warnedProperties, n)
                /\ n \notin testedARIA
                /\ n \notin Range(invalidProps)

C10_Witness ==
    /\ Done /\ Validated
    /\ \E n \in keysOf(props) :
          /\ FreshAtCall(n)
          /\ CamelPattern(n)
          /\ canonicalOf(n) \notin validAriaProperties
    /\ batched(emitted) # {}

\* the name as lowercased by the hyphenated branch
lowerOf(n) == toLowerCase(n)

\* the keys of props, in for-in order
keySeq == [ k \in DOMAIN props |-> props[k].key ]

\* the subsequence of q whose elements are in S
RECURSIVE restrictTo(_, _)
restrictTo(q, S) ==
    IF q = << >> THEN << >>
    ELSE IF Head(q) \in S THEN << Head(q) >> \o restrictTo(Tail(q), S)
    ELSE restrictTo(Tail(q), S)

\* the running or last call is on an element the classifier calls custom
OnCustom ==
    /\ entry # "none"
    /\ element.kind = "element"
    /\ element.type.typeof = "string"
    /\ \/ \E k \in DOMAIN element.type.tag : element.type.tag[k] = "-"
       \/ \E k \in DOMAIN element.props : element.props[k].key = IsName

\* C11: a fresh camel-case name whose canonical form is known gets exactly
\* one did-you-mean diagnostic that suggests the canonical form, and is
\* marked warned; no fresh camel-case name passes without a diagnostic.
C11_CamelKnown ==
    (Done /\ Validated) =>
        \A n \in keysOf(props) :
            (FreshAtCall(n) /\ CamelPattern(n)) =>
                /\ n # canonicalOf(n)
                /\ reportsOf(n) # {}
                /\ canonicalOf(n) \in validAriaProperties =>
                      /\ Cardinality(reportsOf(n)) = 1
                      /\ \A k \in reportsOf(n) :
                            /\ emitted[k].format = InvalidDidYouMeanFormat
                            /\ emitted[k].subject = n
                            /\ emitted[k].other = canonicalOf(n)
                      /\ InMemo(warnedProperties, n)
                      /\ n \notin Range(invalidProps)

C11_Witness ==
    /\ Done /\ Validated
    /\ \E n \in keysOf(props) :
          /\ FreshAtCall(n)
          /\ CamelPattern(n)
          /\ canonicalOf(n) \in validAriaProperties
    /\ Len(props) > 1

\* C12: a fresh hyphenated name whose lowercase form is known and differs
\* from it gets exactly one individual did-you-mean diagnostic that suggests
\* the lowercase form, is marked warned, and is not in the batch.
C12_Miscased ==
    (Done /\ Validated) =>
        \A n \in keysOf(props) :
            ( /\ FreshAtCall(n)
              /\ HyphenatedPattern(n)
              /\ lowerOf(n) \in validAriaProperties
              /\ lowerOf(n) # n ) =>
                /\ Cardinality(reportsOf(n)) = 1
                /\ \A k \in reportsOf(n) :
                      /\ emitted[k].format = UnknownDidYouMeanFormat
                      /\ emitted[k].subject = n
                      /\ emitted[k].other = lowerOf(n)
                /\ InMemo(warnedProperties, n)
                /\ n \notin Range(invalidProps)

C12_Witness ==
    /\ Done /\ Validated
    /\ \E n \in keysOf(props) :
          /\ FreshAtCall(n)
          /\ HyphenatedPattern(n)
          /\ lowerOf(n) \in validAriaProperties
          /\ lowerOf(n) # n
    /\ batched(emitted) # {}

\* C13: the memo grows monotonically: across every step a name that is
\* present and true stays present and true.
C13_Monotonic ==
    [][ \A n \in DOMAIN warnedProperties :
            /\ warnedProperties[n] = TRUE
            /\ n \in DOMAIN warnedProperties'
            /\ warnedProperties'[n] = TRUE
      ]_vars

\* a call has added names to a memo that already held some
C13_Witness ==
    /\ Done /\ Validated
    /\ warnedAtCall # << >>
    /\ Cardinality(DOMAIN warnedProperties)
          > Cardinality(DOMAIN warnedAtCall)

\* C14: the memo never holds a name that is exactly a known attribute, nor
\* a name that matches neither pattern.
C14_MemoOnlyViolations ==
    \A n \in DOMAIN warnedProperties :
        /\ n \notin validAriaProperties
        /\ CamelPattern(n) \/ HyphenatedPattern(n)

C14_Witness ==
    /\ Done /\ Validated
    /\ warnedProperties # << >>
    /\ \E n \in keysOf(props) : n \in validAriaProperties
    /\ \E n \in keysOf(props) : ~CamelPattern(n) /\ ~HyphenatedPattern(n)

\* C15: the batched diagnostic lists its names in the order in which the
\* keys were visited, and a call visits each key of props exactly once.
C15_VisitOrder ==
    /\ (pc = "loop" /\ Validated) => visited = SubSeq(keySeq, 1, idx)
    /\ (Done /\ Validated) =>
          /\ visited = keySeq
          /\ invalidProps = restrictTo(visited, unknownOfCall)
          /\ \A k \in batched(emitted) :
                emitted[k].subject
                    = joinQuoted(restrictTo(visited, unknownOfCall))

C15_Witness ==
    /\ Done /\ Validated
    /\ Cardinality(unknownOfCall) > 1
    /\ batched(emitted) # {}

\* both calls of the race have returned
AllDone == \A p \in Procs : calls[p].pc = "done"

\* the calls of the race whose read of the memo found n unmarked
passedCheck(n) == { p \in Procs : n \in calls[p].fresh }

\* C16: with two interleaved calls a name is reported once for every call
\* whose read of the memo found it unmarked, so that two calls that both
\* read before either writes report the same name twice.
C16_OnePerPassedCheck ==
    /\ \A n \in Names :
          Cardinality(reportsOf(n)) <= Cardinality(passedCheck(n))
    /\ AllDone =>
          \A n \in Names :
              IsViolation(n) =>
                  Cardinality(reportsOf(n)) = Cardinality(passedCheck(n))

\* the same name is the subject of two diagnostics
C16_Witness ==
    \E n \in Names :
        /\ Cardinality(reportsOf(n)) = 2
        /\ passedCheck(n) = Procs

\* C17 as stated: a name that a call skipped because the other call had
\* marked it, before any diagnostic reported it, is reported by no
\* diagnostic once both calls have returned.
C17_SuppressedForGood ==
    AllDone =>
        \A p \in Procs :
            \A n \in calls[p].skipped : reportsOf(n) = {}

\* C17: once both calls have returned, every name in the memo is reported
\* by a diagnostic: a call skips a name that the other call has marked and
\* not yet reported, and the other call reports it before it returns.
C17_MarkedIsReported ==
    /\ AllDone =>
          \A n \in DOMAIN warnedProperties : reportsOf(n) # {}
    /\ \A p \in Procs :
          \A n \in calls[p].skipped :
              /\ InMemo(warnedProperties, n)
              /\ reportsOf(n) = {} =>
                    \E q \in Procs \ { p } :
                        /\ calls[q].pc # "done"
                        /\ n \in Range(calls[q].invalidProps)

\* both calls have returned and one of them skipped a name that was marked
\* and not yet reported
C17_Witness ==
    /\ AllDone
    /\ \E p \in Procs :
          \E n \in calls[p].skipped :
              /\ IsViolation(n)
              /\ Cardinality(reportsOf(n)) = 1

\* C18: a call on a custom element leaves the memo unchanged, so that a
\* call on a non-custom element with the same props right after it still
\* reports every violating key that was not warned before.
C18_CustomLeavesMemo ==
    /\ OnCustom => (warnedProperties = warnedAtCall /\ visited = << >>)
    /\ (Done /\ Validated /\ prev.custom) =>
          \A n \in keysOf(props) :
              (IsViolation(n) /\ FreshAtCall(n)) => reportsOf(n) # {}

C18_Witness ==
    /\ Done /\ Validated /\ prev.custom
    /\ \E n \in keysOf(props) :
          IsViolation(n) /\ FreshAtCall(n) /\ reportsOf(n) # {}

\* a hook call that is handed no element, or an element whose type is not a
\* string
HookSkips ==
    /\ entry \in { "onBeforeMountComponent", "onBeforeUpdateComponent" }
    /\ element.kind = "null" \/ element.type.typeof # "string"

\* C19: the three entry points share the memo: a name reported during
\* onBeforeMountComponent is not reported by a later onBeforeUpdateComponent
\* or validateProperties call; a hook call with no element or with an
\* element whose type is not a string emits nothing and leaves the memo.
C19_SharedMemo ==
    /\ entry \in { "onBeforeUpdateComponent", "validateProperties" } =>
          \A n \in prev.mountReported :
              /\ reportsOf(n) = {}
              /\ n \notin Range(invalidProps)
              /\ reportCount[n] = 1
    /\ HookSkips =>
          /\ pc = "returned"
          /\ emitted = << >>
          /\ visited = << >>
          /\ warnedProperties = warnedAtCall

\* an update hook has validated the names a mount hook reported
C19_Witness ==
    /\ Done /\ Validated
    /\ entry = "onBeforeUpdateComponent"
    /\ Cardinality(prev.mountReported) > 1

====
